---------------------------- MODULE Spec2Model ----------------------------
(***************************************************************************)
(* Movie Wall Art (src/main.cpp): a movie is sampled at ART_WIDTH frame    *)
(* positions and every sampled frame becomes one column of art_image.      *)
(*                                                                         *)
(* Two state machines share the module:                                    *)
(*   Spec      - main() / CreateMovieWallArt() / CreateArtColumn()         *)
(*   SpecStrip - one call of GetFramePixelStrip(), one pixel per step      *)
(*                                                                         *)
(* A colour is a Vec3b, modelled as a triple of channel values 0..255.     *)
(* A Mat is a record [h, w, at] with at[y][x] the pixel of row y, column x *)
(* (0-based, as Mat::at<Vec3b>(y, x)).                                     *)
(***************************************************************************)
EXTENDS Integers, Sequences, FiniteSets, TLC

(***************************************************************************)
(* Program constants.  ART_WIDTH and ART_HEIGHT are 1920 and 1080 in the   *)
(* source (main.cpp:29-30); the model scales them down and treats them as  *)
(* bounds, the code's arithmetic being the same for every positive value.  *)
(***************************************************************************)
ART_WIDTH == 3

ART_HEIGHT == 2

ART_STYLE_CENTER_PIXEL == 1

ART_STYLE_AVERAGE_COLOR == 2

ART_STYLE_PIXEL_STRIP == 3

(***************************************************************************)
(* Bounds of the model.                                                    *)
(***************************************************************************)
\* largest frame height and width handed to GetFramePixelStrip in SpecStrip
MaxFrameH == 3

MaxFrameW == 4

\* largest strip_size handed to GetFramePixelStrip in SpecStrip
MaxStripSize == 3

\* CAP_PROP_FRAME_COUNT ranges over 0..MaxFrames: up to twice the width and
\* one more, so that sample_interval takes the values 0, 1 and 2
MaxFrames == 2 * ART_WIDTH + 1

Cols == 0 .. (ART_WIDTH - 1)

Rows == 0 .. (ART_HEIGHT - 1)

\* the style arguments CreateArtColumn is called with: the three styles and
\* one value that is none of them
Styles == ART_STYLE_CENTER_PIXEL .. (ART_STYLE_PIXEL_STRIP + 1)

ValidStyles == {ART_STYLE_CENTER_PIXEL, ART_STYLE_AVERAGE_COLOR, ART_STYLE_PIXEL_STRIP}

(***************************************************************************)
(* Colours and frames.                                                     *)
(***************************************************************************)
\* Vec3b(): all channels zero (the value vector<Vec3b>(n) is filled with)
ZeroColor == <<0, 0, 0>>

\* Mat art_image(ART_HEIGHT, ART_WIDTH, CV_8UC3, USAGE_ALLOCATE_HOST_MEMORY):
\* the fourth argument is an enumerator of value 1, which selects the
\* Mat(rows, cols, type, const Scalar&) constructor: every pixel is Scalar(1)
DefaultColor == <<1, 0, 0>>

\* a Mat with no data: frame.empty() holds
EmptyMat == [h |-> 0, w |-> 0, at |-> <<>>]

Uniform(h, w, c) ==
    [h |-> h, w |-> w, at |-> [y \in 0 .. (h - 1) |-> [x \in 0 .. (w - 1) |-> c]]]

\* a frame whose pixels encode their own coordinates
Coords(h, w) ==
    [h |-> h, w |-> w,
     at |-> [y \in 0 .. (h - 1) |-> [x \in 0 .. (w - 1) |-> <<y, x, 10 * y + x>>]]]

\* a frame with a brightness ramp along the column-major walk
Ramp(h, w) ==
    [h |-> h, w |-> w,
     at |-> [y \in 0 .. (h - 1) |->
               [x \in 0 .. (w - 1) |->
                  <<(37 * (x * h + y)) % 256, 255 - ((37 * (x * h + y)) % 256), 200>>]]]

Palette == {ZeroColor, <<10, 20, 30>>, <<255, 255, 255>>}

\* frame.empty()
Empty(frame) == frame.h = 0 \/ frame.w = 0

IsUniform(frame, c) ==
    \A y \in 0 .. (frame.h - 1) : \A x \in 0 .. (frame.w - 1) : frame.at[y][x] = c

(***************************************************************************)
(* GetFrameAverageColor (main.cpp:46-71).  The float accumulators hold     *)
(* sums of 8-bit values; they are exact for the frame sizes of the model   *)
(* (below 2^24), and the float -> uchar store truncates.                   *)
(***************************************************************************)
\* the n-th pixel of the walk "for w ... for h ...": column n \div h, row n % h
WalkPixel(frame, n) == frame.at[n % frame.h][n \div frame.h]

RECURSIVE SumChannel(_, _, _)
SumChannel(frame, ch, n) ==
    IF n = 0 THEN 0
    ELSE SumChannel(frame, ch, n - 1) + WalkPixel(frame, n - 1)[ch]

GetFrameAverageColor(frame) ==
    LET frame_dimension == frame.h * frame.w
    IN  <<SumChannel(frame, 1, frame_dimension) \div frame_dimension,
          SumChannel(frame, 2, frame_dimension) \div frame_dimension,
          SumChannel(frame, 3, frame_dimension) \div frame_dimension>>

\* frame.at<Vec3b>(frame_h / 2, frame_w / 2)
CenterPixel(frame) == frame.at[frame.h \div 2][frame.w \div 2]

(***************************************************************************)
(* GetFramePixelStrip (main.cpp:78-125).  A call's locals are one record:  *)
(*   x, y           loop variables of the two for loops                    *)
(*   count, g, b, r the sample counter and the running sums                *)
(*   strip_index    the strip cursor                                       *)
(*   pixel_strip    the strip, slots 0..strip_size-1                       *)
(*   filled         (history) the slots the call has assigned              *)
(* g / count is a float division stored into a uchar: it truncates, and    *)
(* the quotient of a sum of at most 2^16 8-bit values is exact.            *)
(***************************************************************************)
\* int sample_interval = frame_dimension / strip_size   (line 85)
StripSampleInterval(frame, strip_size) == (frame.h * frame.w) \div strip_size

\* int strip_interval = sample_interval / strip_size    (line 86)
StripInterval(frame, strip_size) == StripSampleInterval(frame, strip_size) \div strip_size

\* lines 79-92: the locals before the loops
StripLocals(strip_size) ==
    [x |-> 0, y |-> 0, count |-> 0, g |-> 0, b |-> 0, r |-> 0,
     strip_index |-> 0,
     pixel_strip |-> [i \in 0 .. (strip_size - 1) |-> ZeroColor],
     filled |-> {}]

\* line 110 with the guard dropped
SlotGuardMissing(strip_index, strip_size) == TRUE

\* line 110: if (strip_index < strip_size)
SlotGuard(strip_index, strip_size) == strip_index < strip_size

\* lines 111-112: pixel_strip[strip_index] = Vec3b(g, b, r); strip_index++
StoreSlot(s, color) ==
    [s EXCEPT !.pixel_strip = [k \in DOMAIN s.pixel_strip |->
                                 IF k = s.strip_index THEN color ELSE s.pixel_strip[k]],
              !.filled = s.filled \cup {s.strip_index},
              !.strip_index = s.strip_index + 1]

\* lines 109-114: for (i = 0; i < strip_interval; i++) { guarded store }.
\* (The locals of the next iteration are bound by a quantifier over a
\* singleton, so that they are evaluated once.)
RECURSIVE FillSlots(_, _, _, _, _)
FillSlots(s, i, strip_interval, strip_size, color) ==
    IF i >= strip_interval THEN s
    ELSE CHOOSE r \in {FillSlots(t, i + 1, strip_interval, strip_size, color) :
                         t \in {IF SlotGuard(s.strip_index, strip_size)
                                THEN StoreSlot(s, color) ELSE s}} : TRUE

\* lines 95-96 and the loop headers: the next (x, y) of the walk
StripAdvance(frame, s) ==
    IF s.y + 1 < frame.h THEN [s EXCEPT !.y = s.y + 1]
    ELSE [s EXCEPT !.x = s.x + 1, !.y = 0]

\* lines 96-120: the body of the inner loop at pixel (y, x), then y++
StripBody(frame, strip_size, s) ==
    LET pixel == frame.at[s.y][s.x]
        g1 == s.g + pixel[1]
        b1 == s.b + pixel[2]
        r1 == s.r + pixel[3]
        count1 == s.count + 1
        mean == <<g1 \div count1, b1 \div count1, r1 \div count1>>
    IN  CHOOSE r \in
          {StripAdvance(frame, t) :
             t \in {IF count1 > StripSampleInterval(frame, strip_size)
                    THEN [FillSlots(s, 0, StripInterval(frame, strip_size), strip_size, mean)
                            EXCEPT !.count = 0, !.g = 0, !.b = 0, !.r = 0]
                    ELSE [s EXCEPT !.count = count1, !.g = g1, !.b = b1, !.r = r1]}} : TRUE

\* line 94: x < frame_w (the inner condition y < frame_h holds for h > 0)
StripLoopCond(frame, s) == s.x < frame.w /\ frame.h > 0

RECURSIVE StripRun(_, _, _)
StripRun(frame, strip_size, s) ==
    IF StripLoopCond(frame, s)
    THEN CHOOSE r \in {StripRun(frame, strip_size, t) :
                         t \in {StripBody(frame, strip_size, s)}} : TRUE
    ELSE s

\* the value the call returns
GetFramePixelStrip(frame, strip_size) ==
    StripRun(frame, strip_size, StripLocals(strip_size)).pixel_strip

(***************************************************************************)
(* State.                                                                  *)
(***************************************************************************)
VARIABLES
    pc,              \* position in main / CreateMovieWallArt / CreateArtColumn
    source_ok,       \* cap.isOpened() of the VideoCapture on MOVIE_PATH
    movie,           \* the frames of the source; Len(movie) is CAP_PROP_FRAME_COUNT
    style,           \* the style argument of CreateArtColumn
    frame,           \* Mat frame
    frame_count,     \* locals of CreateMovieWallArt (lines 199-202)
    sample_interval,
    current_frame,
    column_id,
    art_image,       \* Mat art_image: art_image[row][column]
    art_file,        \* the file at ART_PATH: <<>> or <<image>> once imwrite ran
    error,           \* "none", "UnopenableSource" (line 192) or "InvalidStyle" (line 170)
    eos,             \* the loop was left through the break of line 211
    visited,         \* (history) the frame indices passed to cap.set, in order
    written,         \* (history) the column indices CreateArtColumn stored into, in order
    reads,           \* (history) the number of cap >> frame
    strip            \* the call of GetFramePixelStrip that SpecStrip runs

vars ==
    <<pc, source_ok, movie, style, frame, frame_count, sample_interval, current_frame,
      column_id, art_image, art_file, error, eos, visited, written, reads, strip>>

buildVars ==
    <<pc, source_ok, movie, style, frame, frame_count, sample_interval, current_frame,
      column_id, art_image, art_file, error, eos, visited, written, reads>>

\* the frames a movie of the model is made of: same size, different content
MovieFrames == {Coords(3, 4), Uniform(3, 4, <<10, 20, 30>>)}

Movies == UNION {[1 .. n -> MovieFrames] : n \in 0 .. MaxFrames}

\* Mat art_image(ART_HEIGHT, ART_WIDTH, CV_8UC3, ...)  (line 226)
InitialImage == [i \in Rows |-> [c \in Cols |-> DefaultColor]]

NoStrip == [state |-> "none"]

(***************************************************************************)
(* main and CreateMovieWallArt (main.cpp:188-234).                         *)
(***************************************************************************)
Init ==
    /\ pc = "main"
    /\ source_ok \in BOOLEAN
    /\ movie \in (IF source_ok THEN Movies ELSE {<<>>})
    /\ style \in Styles
    /\ frame = EmptyMat
    /\ frame_count = 0
    /\ sample_interval = 0
    /\ current_frame = 0
    /\ column_id = 0
    /\ art_image = InitialImage
    /\ art_file = <<>>
    /\ error = "none"
    /\ eos = FALSE
    /\ visited = <<>>
    /\ written = <<>>
    /\ reads = 0
    /\ strip = NoStrip

\* a seek that lands one frame late
FrameAtLate(pos) == IF pos + 1 < Len(movie) THEN movie[pos + 2] ELSE EmptyMat

\* cap >> frame with the source positioned at index pos: the frame there, or
\* an empty Mat when the source has nothing to give
FrameAt(pos) == IF pos < Len(movie) THEN movie[pos + 1] ELSE EmptyMat

\* int sample_interval = frame_count / ART_WIDTH  (line 200), rounded up
SampleIntervalCeil(count, width) == (count + width - 1) \div width

\* int sample_interval = frame_count / ART_WIDTH  (line 200)
SampleInterval(count, width) == count \div width

\* line 204 without the bound on column_id
LoopCondNoColumnBound(cur, count, col) == cur < count

\* line 204: while (current_frame < frame_count && column_id < ART_WIDTH)
LoopCond(cur, count, col) == cur < count /\ col < ART_WIDTH

\* lines 189-193: the source does not open, the function returns
OpenFails ==
    /\ pc = "main"
    /\ ~source_ok
    /\ error' = "UnopenableSource"
    /\ pc' = "returned"
    /\ UNCHANGED <<source_ok, movie, style, frame, frame_count, sample_interval,
                   current_frame, column_id, art_image, art_file, eos, visited,
                   written, reads, strip>>

\* lines 189-191: the source opens
Open ==
    /\ pc = "main"
    /\ source_ok
    /\ pc' = "opened"
    /\ UNCHANGED <<source_ok, movie, style, frame, frame_count, sample_interval,
                   current_frame, column_id, art_image, art_file, error, eos, visited,
                   written, reads, strip>>

\* lines 196-202: the first frame is read and the locals are set
Setup ==
    /\ pc = "opened"
    /\ frame' = FrameAt(0)
    /\ reads' = reads + 1
    /\ frame_count' = Len(movie)
    /\ sample_interval' = SampleInterval(Len(movie), ART_WIDTH)
    /\ current_frame' = 0
    /\ column_id' = 0
    /\ pc' = "sampling"
    /\ UNCHANGED <<source_ok, movie, style, art_image, art_file, error, eos, visited,
                   written, strip>>

\* lines 204-208 and 210 not taken: seek, read, and the frame has data
ReadFrame ==
    /\ pc = "sampling"
    /\ LoopCond(current_frame, frame_count, column_id)
    /\ ~Empty(FrameAt(current_frame))
    /\ visited' = Append(visited, current_frame)
    /\ reads' = reads + 1
    /\ frame' = FrameAt(current_frame)
    /\ pc' = "column"
    /\ UNCHANGED <<source_ok, movie, style, frame_count, sample_interval, current_frame,
                   column_id, art_image, art_file, error, eos, written, strip>>

\* line 211 as "continue": back to the loop condition
ContinueTarget == "sampling"

\* line 211: break leaves the loop for cap.release()
BreakTarget == "release"

\* lines 204-211: seek, read, the frame is empty: break.  The decoder may
\* fail to deliver any frame, whatever CAP_PROP_FRAME_COUNT promised.
ReadEmpty ==
    /\ pc = "sampling"
    /\ LoopCond(current_frame, frame_count, column_id)
    /\ visited' = Append(visited, current_frame)
    /\ reads' = reads + 1
    /\ frame' = EmptyMat
    /\ eos' = TRUE
    /\ pc' = BreakTarget
    /\ UNCHANGED <<source_ok, movie, style, frame_count, sample_interval, current_frame,
                   column_id, art_image, art_file, error, written, strip>>

\* line 204: the loop condition fails
LoopExit ==
    /\ pc = "sampling"
    /\ ~LoopCond(current_frame, frame_count, column_id)
    /\ pc' = "release"
    /\ UNCHANGED <<source_ok, movie, style, frame, frame_count, sample_interval,
                   current_frame, column_id, art_image, art_file, error, eos, visited,
                   written, reads, strip>>

(***************************************************************************)
(* CreateArtColumn (main.cpp:135-180) and the rest of the loop body.       *)
(***************************************************************************)
\* the colours of one column, row by row: lines 143, 152 and 161
ReduceFrame(f, st) ==
    IF st = ART_STYLE_CENTER_PIXEL THEN [i \in Rows |-> CenterPixel(f)]
    ELSE IF st = ART_STYLE_AVERAGE_COLOR THEN [i \in Rows |-> GetFrameAverageColor(f)]
    ELSE [i \in Rows |-> GetFramePixelStrip(f, ART_HEIGHT)[i]]

\* the store loops with the bound i < ART_HEIGHT - 1
WriteColumnShort(img, col, colors) ==
    [i \in Rows |-> IF i < ART_HEIGHT - 1 THEN [img[i] EXCEPT ![col] = colors[i]] ELSE img[i]]

\* lines 145-149, 154-158, 163-167: art_image.at<Vec3b>(i, column_id) = colour of row i
WriteColumn(img, col, colors) ==
    [i \in Rows |-> [img[i] EXCEPT ![col] = colors[i]]]

\* a handler that catches every exception
CaughtAll(exc) == TRUE

\* line 177: catch (Exception e) is cv::Exception; std::invalid_argument is
\* no cv::Exception and leaves CreateArtColumn, CreateMovieWallArt and main
Caught(exc) == exc = "cv::Exception"

\* line 215 as current_frame++
NextFrameByOne(cur, interval) == cur + 1

\* line 215: current_frame += sample_interval
NextFrame(cur, interval) == cur + interval

\* lines 213-216 with one of the three styles: the column is stored, the
\* frame and the image are shown, the loop variables advance
RenderColumn ==
    /\ pc = "column"
    /\ style \in ValidStyles
    /\ art_image' = WriteColumn(art_image, column_id, ReduceFrame(frame, style))
    /\ written' = Append(written, column_id)
    /\ current_frame' = NextFrame(current_frame, sample_interval)
    /\ column_id' = column_id + 1
    /\ pc' = "sampling"
    /\ UNCHANGED <<source_ok, movie, style, frame, frame_count, sample_interval,
                   art_file, error, eos, visited, reads, strip>>

\* lines 169-171 and 177: throw invalid_argument("Style not found.").  Not
\* caught, it ends the process (std::terminate); caught, CreateArtColumn
\* would return and the loop would go on.
InvalidStyle ==
    /\ pc = "column"
    /\ style \notin ValidStyles
    /\ IF Caught("std::invalid_argument")
       THEN /\ current_frame' = NextFrame(current_frame, sample_interval)
            /\ column_id' = column_id + 1
            /\ pc' = "sampling"
            /\ error' = error
       ELSE /\ pc' = "terminated"
            /\ error' = "InvalidStyle"
            /\ UNCHANGED <<current_frame, column_id>>
    /\ UNCHANGED <<source_ok, movie, style, frame, frame_count, sample_interval,
                   art_image, art_file, eos, visited, written, reads, strip>>

\* lines 219-221: cap.release(), waitKey(0), return to main
Release ==
    /\ pc = "release"
    /\ pc' = "returned"
    /\ UNCHANGED <<source_ok, movie, style, frame, frame_count, sample_interval,
                   current_frame, column_id, art_image, art_file, error, eos, visited,
                   written, reads, strip>>

\* lines 229-233: imwrite(ART_PATH, art_image), destroyAllWindows, return 0
ImWrite ==
    /\ pc = "returned"
    /\ art_file' = <<art_image>>
    /\ pc' = "done"
    /\ UNCHANGED <<source_ok, movie, style, frame, frame_count, sample_interval,
                   current_frame, column_id, art_image, error, eos, visited, written,
                   reads, strip>>

Next ==
    \/ OpenFails
    \/ Open
    \/ Setup
    \/ ReadFrame
    \/ ReadEmpty
    \/ LoopExit
    \/ RenderColumn
    \/ InvalidStyle
    \/ Release
    \/ ImWrite

Spec == Init /\ [][Next]_vars

\* the program is one thread that runs whenever it can take a step
FairSpec == Spec /\ WF_vars(Next)

(***************************************************************************)
(* SpecStrip: one call of GetFramePixelStrip, a pixel per step.            *)
(***************************************************************************)
StripFrames ==
    UNION {{Uniform(h, w, c) : c \in Palette} \cup {Coords(h, w), Ramp(h, w)} :
             h \in 1 .. MaxFrameH, w \in 1 .. MaxFrameW}

InitStrip ==
    /\ pc = "none"
    /\ source_ok = FALSE
    /\ movie = <<>>
    /\ style = ART_STYLE_PIXEL_STRIP
    /\ frame = EmptyMat
    /\ frame_count = 0
    /\ sample_interval = 0
    /\ current_frame = 0
    /\ column_id = 0
    /\ art_image = InitialImage
    /\ art_file = <<>>
    /\ error = "none"
    /\ eos = FALSE
    /\ visited = <<>>
    /\ written = <<>>
    /\ reads = 0
    /\ strip \in {[state |-> "loop", frame |-> f, strip_size |-> n, loc |-> StripLocals(n)] :
                    f \in StripFrames, n \in 1 .. MaxStripSize}

\* lines 94-121: one iteration of the inner loop
StripIterate ==
    /\ strip.state = "loop"
    /\ StripLoopCond(strip.frame, strip.loc)
    /\ strip' = [strip EXCEPT !.loc = StripBody(strip.frame, strip.strip_size, strip.loc)]
    /\ UNCHANGED buildVars

\* line 124: return pixel_strip
StripReturn ==
    /\ strip.state = "loop"
    /\ ~StripLoopCond(strip.frame, strip.loc)
    /\ strip' = [strip EXCEPT !.state = "returned"]
    /\ UNCHANGED buildVars

NextStrip == StripIterate \/ StripReturn

SpecStrip == InitStrip /\ [][NextStrip]_vars

(***************************************************************************)
(* Properties.                                                             *)
(***************************************************************************)
\* the sampling loop of an opened source has been left (normally or by break)
LoopLeft == source_ok /\ pc \in {"release", "returned", "done"}

\* column c of the image, row by row
Column(img, c) == [i \in Rows |-> img[i][c]]

ColumnIsDefault(img, c) == \A i \in Rows : img[i][c] = DefaultColor

NonDecreasing(seq) == \A i \in 1 .. (Len(seq) - 1) : seq[i] <= seq[i + 1]

\* C1: when the video source cannot be opened, no output image is ever
\* written (imwrite is never reached).
C1_NoWriteWhenUnopenable == ~source_ok => art_file = <<>>

\* C2: a column requested with a style that is none of the three raises
\* InvalidStyle before any pixel of that column is stored, the build stops
\* there (no later step, so no further frame is sampled) and no output image
\* is written afterwards.
C2_InvalidStyleAborts ==
    /\ [][(pc = "column" /\ style \notin ValidStyles)
            => /\ error' = "InvalidStyle"
               /\ pc' = "terminated"
               /\ art_image' = art_image
               /\ written' = written]_vars
    /\ [](error = "InvalidStyle"
            => /\ pc = "terminated"
               /\ ColumnIsDefault(art_image, column_id)
               /\ art_file = <<>>)
    /\ [][error # "InvalidStyle"]_vars

C2_Witness ==
    /\ error = "InvalidStyle"
    /\ pc = "terminated"
    /\ visited = <<0>>
    /\ style \notin ValidStyles

\* C3: for frame_count >= ART_WIDTH > 0 the frame indices the loop visits
\* are non-decreasing and lie in [0, frame_count), and when the source never
\* reports end of stream there are exactly ART_WIDTH of them.
C3_PlanShape ==
    (source_ok /\ frame_count >= ART_WIDTH)
      => /\ NonDecreasing(visited)
         /\ \A i \in 1 .. Len(visited) : 0 <= visited[i] /\ visited[i] < frame_count
         /\ (LoopLeft /\ ~eos) => Len(visited) = ART_WIDTH

C3_Witness ==
    /\ pc = "done"
    /\ ~eos
    /\ sample_interval = 2
    /\ Len(visited) = ART_WIDTH
    /\ visited[ART_WIDTH] = 2 * (ART_WIDTH - 1)

\* C4 as claimed: for 0 < frame_count < ART_WIDTH the build samples at most
\* frame_count times and every column of index >= frame_count keeps its
\* default colour to the end of the build.
C4_AtMostFrameCountSamples ==
    (pc = "done" /\ 0 < frame_count /\ frame_count < ART_WIDTH)
      => /\ Len(visited) <= frame_count
         /\ \A c \in Cols : c >= frame_count => ColumnIsDefault(art_image, c)

\* C4 amended: for 0 < frame_count < ART_WIDTH every sample is of frame 0 and
\* there are at most ART_WIDTH of them; when the source never reports end of
\* stream there are exactly ART_WIDTH and every column 0..ART_WIDTH-1 is
\* written, once, with the reduction of frame 0.
C4_ShortMovieRepeatsFrameZero ==
    (source_ok /\ 0 < frame_count /\ frame_count < ART_WIDTH)
      => /\ \A i \in 1 .. Len(visited) : visited[i] = 0
         /\ Len(visited) <= ART_WIDTH
         /\ (LoopLeft /\ ~eos)
              => /\ Len(visited) = ART_WIDTH
                 /\ written = [i \in 1 .. ART_WIDTH |-> i - 1]
                 /\ \A c \in Cols : Column(art_image, c) = ReduceFrame(movie[1], style)

C4_Witness ==
    /\ pc = "done"
    /\ ~eos
    /\ frame_count = 1
    /\ ART_WIDTH > 1
    /\ Len(written) = ART_WIDTH
    /\ ~ColumnIsDefault(art_image, ART_WIDTH - 1)

\* C5: for a frame whose pixels all have the colour c, the strip that
\* GetFramePixelStrip returns has c in every one of its strip_size slots.
C5_UniformStripFilled ==
    \A c \in Palette :
      (strip.state = "returned" /\ IsUniform(strip.frame, c))
        => \A i \in 0 .. (strip.strip_size - 1) : strip.loc.pixel_strip[i] = c

\* C6: columns are stored in the order 0, 1, 2, ..., each at most once, and
\* for frame_count >= ART_WIDTH > 0 without end of stream, column k of the
\* finished image holds the reduction of frame k * (frame_count div ART_WIDTH).
C6_ColumnsFollowPlan ==
    /\ \A i \in 1 .. Len(written) : written[i] = i - 1
    /\ (LoopLeft /\ ~eos /\ frame_count >= ART_WIDTH)
         => /\ Len(written) = ART_WIDTH
            /\ \A k \in Cols :
                 Column(art_image, k)
                   = ReduceFrame(movie[k * (frame_count \div ART_WIDTH) + 1], style)

C6_Witness ==
    /\ pc = "done"
    /\ ~eos
    /\ style = ART_STYLE_AVERAGE_COLOR
    /\ frame_count = 2 * ART_WIDTH
    /\ Len(written) = ART_WIDTH
    /\ movie[1] # movie[3]
    /\ Column(art_file[1], 0) # Column(art_file[1], 1)

\* C7: when the read of the j-th planned sample (j counted from 0) gives an
\* empty frame, no error is raised, columns 0..j-1 keep what was rendered,
\* the columns from j on are at the default colour, no seek, read or store
\* follows, and the build goes on to release the source and write the image.
C7_EndOfStreamStopsSampling ==
    /\ [](eos => /\ LoopLeft
                 /\ error = "none"
                 /\ Len(written) = Len(visited) - 1
                 /\ \A c \in Cols : c >= Len(written) => ColumnIsDefault(art_image, c)
                 /\ (pc = "done" \/ ENABLED Next)
                 /\ (pc = "done" => art_file = <<art_image>>))
    /\ [][eos' => /\ art_image' = art_image
                  /\ written' = written]_vars
    /\ [][eos => /\ visited' = visited
                 /\ reads' = reads]_vars

C7_Witness ==
    /\ eos
    /\ pc = "done"
    /\ Len(visited) = ART_WIDTH
    /\ Len(written) = ART_WIDTH - 1
    /\ ~ColumnIsDefault(art_file[1], 0)
    /\ ColumnIsDefault(art_file[1], ART_WIDTH - 1)

\* C8: storing a single colour (CenterPixel or AverageColor style) into
\* column column_id, 0 <= column_id < ART_WIDTH, sets every row of that
\* column to the colour and changes no pixel of any other column.
C8_SolidColumnOnly ==
    [][(pc = "column" /\ style \in {ART_STYLE_CENTER_PIXEL, ART_STYLE_AVERAGE_COLOR})
         => LET color == IF style = ART_STYLE_CENTER_PIXEL THEN CenterPixel(frame)
                         ELSE GetFrameAverageColor(frame)
            IN  /\ column_id \in Cols
                /\ \A i \in Rows : \A c \in Cols :
                     art_image'[i][c] = IF c = column_id THEN color ELSE art_image[i][c]]_vars

C8_Witness ==
    /\ pc = "sampling"
    /\ style = ART_STYLE_CENTER_PIXEL
    /\ Len(written) = 2
    /\ \A i \in Rows : art_image[i][1] = CenterPixel(frame)
    /\ ~ColumnIsDefault(art_image, 0)
    /\ Column(art_image, 0) # Column(art_image, 1)
    /\ \A c \in Cols : c >= 2 => ColumnIsDefault(art_image, c)

\* the states of a build: 1 Opened, 2 Sampling, 3 Finalized (0: not opened)
BuildState(p) ==
    IF p = "opened" THEN 1
    ELSE IF p \in {"sampling", "column"} THEN 2
    ELSE IF p \in {"release", "returned", "done"} THEN 3
    ELSE 0

\* C9: a build on an opened source (with one of the three styles, as the
\* program passes) goes Opened -> Sampling -> Finalized without ever going
\* back, the loop seeks at most ART_WIDTH times, also when sample_interval
\* is 0, and Finalized is always reached.
C9_BuildTerminates ==
    /\ [](Len(visited) <= ART_WIDTH)
    /\ [][(source_ok /\ style \in ValidStyles)
            => /\ BuildState(pc') >= BuildState(pc)
               /\ BuildState(pc') <= BuildState(pc) + 1]_vars
    /\ ((pc = "opened" /\ style \in ValidStyles) ~> (LoopLeft /\ BuildState(pc) = 3))

C9_Witness ==
    /\ pc = "done"
    /\ source_ok
    /\ ~eos
    /\ frame_count > 0
    /\ sample_interval = 0
    /\ Len(visited) = ART_WIDTH

\* C10: in GetFramePixelStrip the cursor never exceeds strip_size, the slots
\* assigned so far are exactly the slots below the cursor and all others hold
\* the zero colour; when H*W < strip_size^2 (strip_interval = 0) no slot is
\* ever assigned and the strip is all zero, whatever the frame holds.
C10_StripCursor ==
    strip.state # "none"
      => /\ strip.loc.strip_index <= strip.strip_size
         /\ strip.loc.filled = 0 .. (strip.loc.strip_index - 1)
         /\ \A i \in 0 .. (strip.strip_size - 1) :
              i >= strip.loc.strip_index => strip.loc.pixel_strip[i] = ZeroColor
         /\ (strip.frame.h * strip.frame.w < strip.strip_size * strip.strip_size)
              => /\ StripInterval(strip.frame, strip.strip_size) = 0
                 /\ strip.loc.filled = {}
                 /\ \A i \in 0 .. (strip.strip_size - 1) :
                      strip.loc.pixel_strip[i] = ZeroColor

C10_Witness ==
    /\ strip.state = "returned"
    /\ strip.frame.h * strip.frame.w < strip.strip_size * strip.strip_size
    /\ strip.frame.h * strip.frame.w > strip.strip_size
    /\ IsUniform(strip.frame, <<255, 255, 255>>)
    /\ \A i \in 0 .. (strip.strip_size - 1) : strip.loc.pixel_strip[i] = ZeroColor

=============================================================================
